---- MODULE Spec2Model ----
(***************************************************************************)
(* Model of the Bland AI booking worker (src/index.ts, utils/apyhub.ts,    *)
(* utils/sendgrid.ts, utils/slack.ts).                                     *)
(*                                                                         *)
(* Strings the code inspects character by character (dates, times, emails, *)
(* webhook response bodies) are sequences of one-character strings.        *)
(* Instants are minutes since 1970-01-01T00:00Z (inputs carry no seconds). *)
(***************************************************************************)
EXTENDS Integers, Sequences, FiniteSets, TLC

VARIABLES request, env, pc, inputData, bookingDataForSlack, bookingDetails,
          displayTimePacific, icsContent, error, failStage, inviteCalls,
          emailCalls, inviteOutcome, emailOutcome, response, slackTask,
          slackPosts

vars == <<request, env, pc, inputData, bookingDataForSlack, bookingDetails,
          displayTimePacific, icsContent, error, failStage, inviteCalls,
          emailCalls, inviteOutcome, emailOutcome, response, slackTask,
          slackPosts>>

-----------------------------------------------------------------------------
(* Characters and small string helpers *)

Digits == <<"0", "1", "2", "3", "4", "5", "6", "7", "8", "9">>

IsDigit(c) == \E i \in 1..10 : Digits[i] = c

DigitVal(c) == (CHOOSE i \in 1..10 : Digits[i] = c) - 1

\* parseInt of a run of decimal digits
RECURSIVE ParseInt(_)
ParseInt(s) ==
    IF s = <<>> THEN 0
    ELSE 10 * ParseInt(SubSeq(s, 1, Len(s) - 1)) + DigitVal(s[Len(s)])

\* date-fns tokens dd, MM, HH, mm, hh: two digits, zero padded
Pad2(n) == <<Digits[((n \div 10) % 10) + 1], Digits[(n % 10) + 1]>>

\* date-fns token yyyy: four digits, zero padded
Pad4(n) == Pad2(n \div 100) \o Pad2(n % 100)

\* String.prototype.split('@')[0]: the text before the first '@'
RECURSIVE SplitAtFirst(_)
SplitAtFirst(s) ==
    IF s = <<>> THEN <<>>
    ELSE IF Head(s) = "@" THEN <<>>
    ELSE <<Head(s)>> \o SplitAtFirst(Tail(s))

-----------------------------------------------------------------------------
(* Calendar arithmetic used by Date and date-fns-tz *)

IsLeapYear(y) == (y % 4 = 0 /\ y % 100 # 0) \/ y % 400 = 0

DaysInMonth(y, m) ==
    IF m = 2 THEN (IF IsLeapYear(y) THEN 29 ELSE 28)
    ELSE IF m \in {4, 6, 9, 11} THEN 30 ELSE 31

\* leap days in the years 1 .. y-1
LeapDaysBefore(y) == ((y - 1) \div 4) - ((y - 1) \div 100) + ((y - 1) \div 400)

\* days from 1970-01-01 to January 1st of year y (proleptic Gregorian)
DaysBeforeYear(y) == 365 * (y - 1970) + LeapDaysBefore(y) - LeapDaysBefore(1970)

RECURSIVE DaysBeforeMonth(_, _)
DaysBeforeMonth(y, m) ==
    IF m <= 1 THEN 0 ELSE DaysBeforeMonth(y, m - 1) + DaysInMonth(y, m - 1)

\* days from 1970-01-01 to the civil date y-m-d
DaysFromCivil(y, m, d) == DaysBeforeYear(y) + DaysBeforeMonth(y, m) + (d - 1)

\* the civil date of day number z
RECURSIVE YearOfDays(_, _)
YearOfDays(z, y) ==
    IF z < DaysBeforeYear(y + 1) THEN y ELSE YearOfDays(z, y + 1)

RECURSIVE MonthOfDays(_, _, _)
MonthOfDays(z, y, m) ==
    IF z < DaysBeforeYear(y) + DaysBeforeMonth(y, m + 1) THEN m
    ELSE MonthOfDays(z, y, m + 1)

CivilFromDays(z) ==
    LET y == YearOfDays(z, 1970 + (z \div 366))
        m == MonthOfDays(z, y, 1)
    IN  [year |-> y, month |-> m,
         day |-> z - DaysBeforeYear(y) - DaysBeforeMonth(y, m) + 1]

\* 0 = Sunday; 1970-01-01 was a Thursday
DayOfWeek(z) == (z + 4) % 7

\* day of month of the n-th Sunday of month m in year y
NthSunday(y, m, n) ==
    LET w == DayOfWeek(DaysFromCivil(y, m, 1))
    IN  1 + ((7 - w) % 7) + 7 * (n - 1)

MinutesPerDay == 1440

NaN == -1

-----------------------------------------------------------------------------
(* America/Los_Angeles zone rules (US rules since 2007): daylight time     *)
(* from the second Sunday of March 02:00 PST (10:00Z) to the first Sunday  *)
(* of November 02:00 PDT (09:00Z).                                         *)

PSTOffset == -480

PDTOffset == -420

DSTStartUTC(y) == DaysFromCivil(y, 3, NthSunday(y, 3, 2)) * MinutesPerDay + 600

DSTEndUTC(y) == DaysFromCivil(y, 11, NthSunday(y, 11, 1)) * MinutesPerDay + 540

\* date-fns-tz calcOffset: the zone's UTC offset (minutes) at instant t
calcOffset(t) ==
    LET y == CivilFromDays(t \div MinutesPerDay).year
    IN  IF DSTStartUTC(y) <= t /\ t < DSTEndUTC(y) THEN PDTOffset ELSE PSTOffset

Max(a, b) == IF a >= b THEN a ELSE b

\* fixOffset with the zone's standard offset used all year round
fixOffset_FixedPST(localTS, offset) == PSTOffset

\* date-fns-tz fixOffset: refine the offset guessed for a local timestamp
fixOffset(localTS, offset) ==
    LET utcGuess == localTS - offset
        o2 == calcOffset(utcGuess)
        utcGuess2 == utcGuess - (o2 - offset)
        o3 == calcOffset(utcGuess2)
    IN  IF offset = o2 THEN offset
        ELSE IF o2 = o3 THEN o2
        ELSE Max(o2, o3)

\* index.ts line 85: `${year}-${month}-${day}T${hour}:${minute}:00`
NaiveDateTimeString(year, month, day, hour, minute) ==
    year \o <<"-">> \o month \o <<"-">> \o day \o <<"T">> \o hour \o <<":">>
         \o minute \o <<":", "0", "0">>

\* date-fns-tz validateDate / validateTime on the parsed components
validateDate(y, m, d) == m >= 1 /\ m <= 12 /\ d >= 1 /\ d <= DaysInMonth(y, m)

validateTime(h, mi) == h >= 0 /\ h < 25 /\ mi >= 0 /\ mi < 60

\* zonedTimeToUtc(naiveDateTimeString, 'America/Los_Angeles'): the instant at
\* which the zone's wall clock shows the given civil time, NaN when the
\* components are not a calendar date / time of day
zonedTimeToUtc(s) ==
    LET y  == ParseInt(SubSeq(s, 1, 4))
        m  == ParseInt(SubSeq(s, 6, 7))
        d  == ParseInt(SubSeq(s, 9, 10))
        h  == ParseInt(SubSeq(s, 12, 13))
        mi == ParseInt(SubSeq(s, 15, 16))
    IN  IF ~validateDate(y, m, d) \/ ~validateTime(h, mi) THEN NaN
        ELSE LET localTS == DaysFromCivil(y, m, d) * MinutesPerDay + h * 60 + mi
             IN  localTS - fixOffset(localTS, calcOffset(localTS))

\* the wall-clock fields the zone shows at instant t
ZonedFields(t) ==
    LET l == t + calcOffset(t)
        c == CivilFromDays(l \div MinutesPerDay)
    IN  [year |-> c.year, month |-> c.month, day |-> c.day,
         hour |-> (l % MinutesPerDay) \div 60, minute |-> l % 60,
         zone |-> IF calcOffset(t) = PDTOffset THEN <<"P", "D", "T">>
                  ELSE <<"P", "S", "T">>]

\* formatInTimeZone(date, 'America/Los_Angeles', 'dd-MM-yyyy')
formatDate(t) ==
    LET f == ZonedFields(t)
    IN  Pad2(f.day) \o <<"-">> \o Pad2(f.month) \o <<"-">> \o Pad4(f.year)

\* formatInTimeZone(date, 'America/Los_Angeles', 'HH:mm')
formatTime(t) ==
    LET f == ZonedFields(t) IN Pad2(f.hour) \o <<":">> \o Pad2(f.minute)

\* formatInTimeZone(date, 'America/Los_Angeles', 'MM/dd/yyyy, hh:mm:ss a zzz')
formatDisplay(t) ==
    LET f == ZonedFields(t)
        h12 == IF f.hour % 12 = 0 THEN 12 ELSE f.hour % 12
    IN  Pad2(f.month) \o <<"/">> \o Pad2(f.day) \o <<"/">> \o Pad4(f.year)
        \o <<",", " ">> \o Pad2(h12) \o <<":">> \o Pad2(f.minute)
        \o <<":", "0", "0", " ">>
        \o (IF f.hour < 12 THEN <<"A", "M">> ELSE <<"P", "M">>)
        \o <<" ">> \o f.zone

\* Date.prototype.toISOString: YYYY-MM-DDTHH:mm:ss.sssZ in UTC
toISOString(t) ==
    LET c == CivilFromDays(t \div MinutesPerDay)
    IN  Pad4(c.year) \o <<"-">> \o Pad2(c.month) \o <<"-">> \o Pad2(c.day)
        \o <<"T">> \o Pad2((t % MinutesPerDay) \div 60) \o <<":">> \o Pad2(t % 60)
        \o <<":", "0", "0", ".", "0", "0", "0", "Z">>

\* new Date(isoString)
DateFromISO(s) ==
    DaysFromCivil(ParseInt(SubSeq(s, 1, 4)), ParseInt(SubSeq(s, 6, 7)),
                  ParseInt(SubSeq(s, 9, 10))) * MinutesPerDay
    + ParseInt(SubSeq(s, 12, 13)) * 60 + ParseInt(SubSeq(s, 15, 16))

\* apyhub.ts line 17: utcStartDate.getTime() + 30 * 60 * 1000
MeetingMinutes == 30

-----------------------------------------------------------------------------
(* JSON values of the webhook body (BlandWebhookInput, index.ts 21-26)     *)

Undefined == [kind |-> "undefined", s |-> <<>>]

Str(s) == [kind |-> "string", s |-> s]

\* a present field that is not a string (the JSON number 5)
Num5 == [kind |-> "number", s |-> <<"5">>]

\* JavaScript truthiness of a field value
Truthy(v) == (v.kind = "string" /\ v.s # <<>>) \/ v.kind = "number"

\* `${value}` in a template literal
Render(v) ==
    IF v.kind = "undefined" THEN <<"u", "n", "d", "e", "f", "i", "n", "e", "d">>
    ELSE v.s

\* a || b on field values
OrElse(a, b) == IF Truthy(a) THEN a ELSE b

\* /^(\d{2})-(\d{2})-(\d{4})$/
MatchDate(s) ==
    /\ Len(s) = 10
    /\ \A i \in {1, 2, 4, 5, 7, 8, 9, 10} : IsDigit(s[i])
    /\ s[3] = "-" /\ s[6] = "-"

\* /^(\d{2}):(\d{2})$/
MatchTime(s) ==
    /\ Len(s) = 5
    /\ \A i \in {1, 2, 4, 5} : IsDigit(s[i])
    /\ s[3] = ":"

-----------------------------------------------------------------------------
(* Bounded inputs *)

\* number of calendar years, from FirstYear on, that bookings are drawn from
NumYears == 1

FirstYear == 2025

InputYears == FirstYear .. (FirstYear + NumYears - 1)

InputDays == {1, 2, 9, 21, 31}

InputMonths == {3, 5, 11}

InputHours == {1, 2, 3, 14, 23, 25}

InputMinutes == {0, 30, 45}

DateStrings ==
    {Pad2(d) \o <<"-">> \o Pad2(m) \o <<"-">> \o Pad4(y) :
        d \in InputDays, m \in InputMonths, y \in InputYears}
    \cup {<<"2", "0", "2", "5", "-", "0", "5", "-", "2", "1">>}

TimeStrings ==
    {Pad2(h) \o <<":">> \o Pad2(mi) : h \in InputHours, mi \in InputMinutes}
    \cup {<<"2", ":", "3", "0">>}

EmailStrings ==
    { <<"a", ".", "b", "@", "x", ".", "c", "o", "m">>,
      <<"@", "x", ".", "c", "o", "m">> }

FieldValues(strings) == {Undefined, Str(<<>>), Num5} \cup {Str(s) : s \in strings}

\* request.json() outcomes: a syntax error, null, a scalar, or an object
NoFields == [email |-> Undefined, interview_date |-> Undefined,
             interview_time |-> Undefined]

Bodies ==
    {[kind |-> k, fields |-> NoFields] : k \in {"malformed", "null", "number"}}
    \cup {[kind |-> "object",
           fields |-> [email |-> e, interview_date |-> d, interview_time |-> t]] :
            e \in FieldValues(EmailStrings), d \in FieldValues(DateStrings),
            t \in FieldValues(TimeStrings)}

EmptyBody == [kind |-> "object", fields |-> NoFields]

Requests ==
    {[method |-> "POST", path |-> "/book-email", body |-> b] : b \in Bodies}
    \cup {[method |-> m, path |-> p, body |-> EmptyBody] :
            m \in {"GET", "PUT"}, p \in {"/book-email", "/slack-event"}}
    \cup {[method |-> "POST", path |-> p, body |-> EmptyBody] :
            p \in {"/slack-event", "/book-email/"}}

SlackUrl == <<"h", "o", "o", "k", "s", "/", "s", "e", "r", "v", "i", "c", "e", "s", "/", "T">>

\* Env.SLACK_BOOKINGS_URL / SLACK_ERRORS_URL are optional: "" when not configured
Envs == [SLACK_BOOKINGS_URL : {<<>>, SlackUrl}, SLACK_ERRORS_URL : {<<>>, SlackUrl}]

-----------------------------------------------------------------------------
(* Values of the handler's locals and of the messages it exchanges *)

Err(msg) == [msg |-> msg, fields |-> <<>>, status |-> 0]

NoError == Err("")

InputUndefined == [kind |-> "undefined", fields |-> NoFields]

NoBookingData == [name |-> Undefined, email |-> Undefined]

NoBookingDetails == [name |-> <<>>, email |-> <<>>, startTimeISO |-> <<>>]

NoIcs == [id |-> "none", latin1 |-> TRUE]

\* invite content returned by ApyHub; btoa rejects content outside Latin-1
IcsContents == {[id |-> "icsA", latin1 |-> TRUE], [id |-> "icsB", latin1 |-> TRUE],
                [id |-> "icsWide", latin1 |-> FALSE]}

\* outcomes of the ApyHub fetch
InviteOutcomes ==
    {[kind |-> "ok", status |-> 200, text |-> c] : c \in IcsContents}
    \cup {[kind |-> "notok", status |-> 500, text |-> NoIcs],
          [kind |-> "throw", status |-> 0, text |-> NoIcs]}

NoInviteOutcome == [kind |-> "none", status |-> 0, text |-> NoIcs]

NoResponse == [status |-> 0, kind |-> "none", success |-> FALSE, message |-> NoError]

TextResponse(status, text) ==
    [status |-> status, kind |-> "text", success |-> FALSE, message |-> Err(text)]

JsonResponse(status, success, message) ==
    [status |-> status, kind |-> "json", success |-> success, message |-> message]

CandidateName == <<"C", "a", "n", "d", "i", "d", "a", "t", "e">>

NoEmailName == CandidateName \o <<" ", "(", "N", "o", " ", "E", "m", "a", "i", "l", ")">>

ValuedCandidateName == <<"V", "a", "l", "u", "e", "d", " ">> \o CandidateName

NotAvailable == <<"N", "/", "A">>

-----------------------------------------------------------------------------
(* utils/slack.ts *)

NoPayload == [header |-> "", applicant |-> <<>>, email |-> <<>>, time |-> <<>>,
              errorDetails |-> NoError]

NoOutcome == [kind |-> "none", ok |-> FALSE, body |-> <<>>]

NoTask == [pc |-> "none", webhookUrl |-> <<>>, payload |-> NoPayload,
           outcome |-> NoOutcome, sent |-> FALSE]

Whitespace == {" ", "\n"}

\* String.prototype.trim
RECURSIVE TrimStart(_)
TrimStart(s) ==
    IF s # <<>> /\ Head(s) \in Whitespace THEN TrimStart(Tail(s)) ELSE s

RECURSIVE TrimEnd(_)
TrimEnd(s) ==
    IF s # <<>> /\ s[Len(s)] \in Whitespace THEN TrimEnd(SubSeq(s, 1, Len(s) - 1))
    ELSE s

Trim(s) == TrimEnd(TrimStart(s))

\* String.prototype.toLowerCase on the letters webhook bodies use
LowerChar(c) == IF c = "O" THEN "o" ELSE IF c = "K" THEN "k" ELSE c

ToLowerCase(s) == [i \in 1..Len(s) |-> LowerChar(s[i])]

SlackBodies == { <<"o", "k">>, <<"O", "K">>, <<" ", "o", "k", "\n">>,
                 <<"n", "o">>, <<>> }

\* outcomes of the webhook fetch: a transport exception, or a response
SlackOutcomes ==
    {[kind |-> "throw", ok |-> FALSE, body |-> <<>>]}
    \cup {[kind |-> "response", ok |-> TRUE, body |-> b] : b \in SlackBodies}
    \cup {[kind |-> "response", ok |-> FALSE, body |-> b] :
            b \in {<<"n", "o">>, <<"o", "k">>}}

\* sendSlackMessage up to its first await: returns false at once for a falsy
\* URL, otherwise issues the single POST
sendSlackMessage(webhookUrl, payload) ==
    IF webhookUrl = <<>>
    THEN [task |-> [pc |-> "done", webhookUrl |-> webhookUrl, payload |-> payload,
                    outcome |-> NoOutcome, sent |-> FALSE],
          posts |-> <<>>]
    ELSE [task |-> [pc |-> "inflight", webhookUrl |-> webhookUrl,
                    payload |-> payload, outcome |-> NoOutcome, sent |-> FALSE],
          posts |-> <<[url |-> webhookUrl, payload |-> payload]>>]

\* slackResult without the comparison of the response body
slackResult_IgnoresBody(o) ==
    IF o.kind = "throw" THEN FALSE
    ELSE IF ~o.ok THEN FALSE
    ELSE TRUE

\* sendSlackMessage after the POST settled: the boolean it resolves to
slackResult(o) ==
    IF o.kind = "throw" THEN FALSE
    ELSE IF ~o.ok THEN FALSE
    ELSE ToLowerCase(Trim(o.body)) = <<"o", "k">>

\* SlackResponse with the handler's response rewritten on a failed delivery
SlackResponse_AltersResponse ==
    /\ slackTask.pc = "inflight"
    /\ \E o \in SlackOutcomes :
         /\ slackTask' = [slackTask EXCEPT !.pc = "done", !.outcome = o,
                                           !.sent = slackResult(o)]
         /\ response' = IF slackResult(o) THEN response
                        ELSE JsonResponse(500, FALSE,
                                          Err("Failed to send Slack notification."))
    /\ UNCHANGED <<inviteOutcome, emailOutcome, request, env, pc, inputData,
                   bookingDataForSlack, bookingDetails, displayTimePacific,
                   icsContent, error, failStage, inviteCalls, emailCalls,
                   slackPosts>>

\* the webhook fetch settles; the .then callback only logs
SlackResponse ==
    /\ slackTask.pc = "inflight"
    /\ \E o \in SlackOutcomes :
         slackTask' = [slackTask EXCEPT !.pc = "done", !.outcome = o,
                                        !.sent = slackResult(o)]
    /\ UNCHANGED <<inviteOutcome, emailOutcome, request, env, pc, inputData,
                   bookingDataForSlack, bookingDetails, displayTimePacific,
                   icsContent, error, failStage, inviteCalls, emailCalls,
                   response, slackPosts>>

-----------------------------------------------------------------------------
(* index.ts: fetch and handleBookEmail *)

Init ==
    /\ request \in Requests
    /\ env \in Envs
    /\ pc = "fetch"
    /\ inputData = InputUndefined
    /\ bookingDataForSlack = NoBookingData
    /\ bookingDetails = NoBookingDetails
    /\ displayTimePacific = <<>>
    /\ icsContent = NoIcs
    /\ error = NoError
    /\ failStage = "none"
    /\ inviteCalls = <<>>
    /\ emailCalls = <<>>
    /\ inviteOutcome = NoInviteOutcome
    /\ emailOutcome = "none"
    /\ response = NoResponse
    /\ slackTask = NoTask
    /\ slackPosts = <<>>

\* Route with the path looked at before the method
Route_PathFirst(method, path) ==
    IF path = "/book-email" THEN "handleBookEmail"
    ELSE IF method # "POST" THEN "405"
    ELSE "404"

\* fetch (lines 29-45): what the router does with a request
Route(method, path) ==
    IF method # "POST" THEN "405"
    ELSE IF path = "/book-email" THEN "handleBookEmail"
    ELSE "404"

Fetch ==
    /\ pc = "fetch"
    /\ LET r == Route(request.method, request.path)
       IN  IF r = "405"
           THEN /\ response' = TextResponse(405, "Method Not Allowed")
                /\ pc' = "done"
           ELSE IF r = "handleBookEmail"
           THEN /\ response' = response
                /\ pc' = "json"
           ELSE /\ response' = TextResponse(404, "Not Found")
                /\ pc' = "done"
    /\ UNCHANGED <<inviteOutcome, emailOutcome, request, env, inputData,
                   bookingDataForSlack, bookingDetails, displayTimePacific,
                   icsContent, error, failStage, inviteCalls, emailCalls,
                   slackTask, slackPosts>>

\* a throw inside the try block: control moves to the catch clause
Throw(e, stage) ==
    /\ error' = e
    /\ failStage' = stage
    /\ pc' = "catch"

\* lines 59-70: await request.json(), Slack booking data, payload type check
ParseBody ==
    /\ pc = "json"
    /\ LET b == request.body
           e == b.fields.email
       IN  IF b.kind = "malformed"
           THEN /\ Throw(Err("Unexpected token in JSON"), "Parse")
                /\ UNCHANGED <<inputData, bookingDataForSlack>>
           ELSE /\ inputData' = b
                /\ IF b.kind = "null"
                   THEN /\ Throw(Err("Invalid JSON payload"), "Parse")
                        /\ UNCHANGED bookingDataForSlack
                   ELSE IF b.kind = "number"
                   THEN /\ bookingDataForSlack' =
                             [name |-> Str(NoEmailName), email |-> Undefined]
                        /\ Throw(Err("Invalid JSON payload"), "Parse")
                   ELSE IF Truthy(e) /\ e.kind # "string"
                   THEN /\ Throw(Err("inputData.email.split is not a function"),
                                 "Parse")
                        /\ UNCHANGED bookingDataForSlack
                   ELSE IF Truthy(e)
                   THEN /\ bookingDataForSlack' =
                             [name |-> OrElse(Str(SplitAtFirst(e.s)),
                                              Str(CandidateName)),
                              email |-> e]
                        /\ pc' = "validate"
                        /\ UNCHANGED <<error, failStage>>
                   ELSE /\ bookingDataForSlack' =
                             [name |-> Str(NoEmailName), email |-> Undefined]
                        /\ pc' = "validate"
                        /\ UNCHANGED <<error, failStage>>
    /\ UNCHANGED <<inviteOutcome, emailOutcome, request, env, bookingDetails,
                   displayTimePacific, icsContent, inviteCalls, emailCalls,
                   response, slackTask, slackPosts>>

RequiredFields == <<"email", "interview_date", "interview_time">>

\* MissingFields that only notices absent fields, not empty ones
MissingFields_UndefinedOnly(f) ==
    SelectSeq(RequiredFields, LAMBDA n : f[n].kind = "undefined")

\* lines 73-75: the required fields whose value is falsy, in declaration order
MissingFields(f) == SelectSeq(RequiredFields, LAMBDA n : ~Truthy(f[n]))

\* lines 72-78
Validate ==
    /\ pc = "validate"
    /\ LET missing == MissingFields(inputData.fields)
       IN  IF missing # <<>>
           THEN Throw([msg |-> "Missing required fields", fields |-> missing,
                       status |-> 0], "Validation")
           ELSE /\ pc' = "resolve"
                /\ UNCHANGED <<error, failStage>>
    /\ UNCHANGED <<inviteOutcome, emailOutcome, request, env, inputData,
                   bookingDataForSlack, bookingDetails, displayTimePacific,
                   icsContent, inviteCalls, emailCalls, response, slackTask,
                   slackPosts>>

\* ResolveInstant without the isNaN check of line 88
ResolveInstant_NoNaNCheck(d, t) ==
    IF d.kind # "string"
    THEN [ok |-> FALSE, utcDate |-> NaN,
          error |-> Err("inputData.interview_date.match is not a function")]
    ELSE IF t.kind # "string"
    THEN [ok |-> FALSE, utcDate |-> NaN,
          error |-> Err("inputData.interview_time.match is not a function")]
    ELSE IF ~MatchDate(d.s) \/ ~MatchTime(t.s)
    THEN [ok |-> FALSE, utcDate |-> NaN,
          error |-> Err("Invalid date or time format.")]
    ELSE [ok |-> TRUE,
          utcDate |-> zonedTimeToUtc(
              NaiveDateTimeString(SubSeq(d.s, 7, 10), SubSeq(d.s, 4, 5),
                                  SubSeq(d.s, 1, 2), SubSeq(t.s, 1, 2),
                                  SubSeq(t.s, 4, 5))),
          error |-> NoError]

\* lines 80-88: the instant for the date and time strings, or the error thrown
ResolveInstant(d, t) ==
    IF d.kind # "string"
    THEN [ok |-> FALSE, utcDate |-> NaN,
          error |-> Err("inputData.interview_date.match is not a function")]
    ELSE IF t.kind # "string"
    THEN [ok |-> FALSE, utcDate |-> NaN,
          error |-> Err("inputData.interview_time.match is not a function")]
    ELSE IF ~MatchDate(d.s) \/ ~MatchTime(t.s)
    THEN [ok |-> FALSE, utcDate |-> NaN,
          error |-> Err("Invalid date or time format.")]
    ELSE LET utcDate == zonedTimeToUtc(
                 NaiveDateTimeString(SubSeq(d.s, 7, 10), SubSeq(d.s, 4, 5),
                                     SubSeq(d.s, 1, 2), SubSeq(t.s, 1, 2),
                                     SubSeq(t.s, 4, 5)))
         IN  IF utcDate = NaN
             THEN [ok |-> FALSE, utcDate |-> NaN,
                   error |-> Err("Could not parse Pacific date.")]
             ELSE [ok |-> TRUE, utcDate |-> utcDate, error |-> NoError]

\* lines 80-98
ResolveTime ==
    /\ pc = "resolve"
    /\ LET f == inputData.fields
           r == ResolveInstant(f.interview_date, f.interview_time)
       IN  IF ~r.ok
           THEN /\ Throw(r.error, "TimeResolution")
                /\ UNCHANGED <<bookingDetails, displayTimePacific>>
           ELSE LET startTimeISO == toISOString(r.utcDate)
                    derivedName == OrElse(Str(SplitAtFirst(f.email.s)),
                                          Str(ValuedCandidateName))
                IN  /\ bookingDetails' = [name |-> derivedName.s,
                                          email |-> f.email.s,
                                          startTimeISO |-> startTimeISO]
                    /\ displayTimePacific' =
                           formatDisplay(DateFromISO(startTimeISO))
                    /\ pc' = "generateICS"
                    /\ UNCHANGED <<error, failStage>>
    /\ UNCHANGED <<inviteOutcome, emailOutcome, request, env, inputData,
                   bookingDataForSlack, icsContent, inviteCalls, emailCalls,
                   response, slackTask, slackPosts>>

\* InviteRequestBody with the 30 minutes added to the start's wall-clock
\* fields instead of to the instant
InviteRequestBody_LocalArithmetic(details) ==
    LET utcStartDate == DateFromISO(details.startTimeISO)
        f == ZonedFields(utcStartDate)
        endWall == f.hour * 60 + f.minute + MeetingMinutes
    IN  [name |-> details.name,
         attendees_emails |-> <<details.email>>,
         time_zone |-> "America/Los_Angeles",
         meeting_date |-> formatDate(utcStartDate),
         start_time |-> formatTime(utcStartDate),
         end_time |-> Pad2((endWall \div 60) % 24) \o <<":">> \o Pad2(endWall % 60)]

\* apyhub.ts lines 15-43: the request body generateICS submits
InviteRequestBody(details) ==
    LET utcStartDate == DateFromISO(details.startTimeISO)
        utcEndDate == utcStartDate + MeetingMinutes
    IN  [name |-> details.name,
         attendees_emails |-> <<details.email>>,
         time_zone |-> "America/Los_Angeles",
         meeting_date |-> formatDate(utcStartDate),
         start_time |-> formatTime(utcStartDate),
         end_time |-> formatTime(utcEndDate)]

\* line 99 and apyhub.ts lines 12-55: generateICS up to its POST to ApyHub
generateICS ==
    /\ pc = "generateICS"
    /\ inviteCalls' = Append(inviteCalls, InviteRequestBody(bookingDetails))
    /\ pc' = "awaitInvite"
    /\ UNCHANGED <<inviteOutcome, emailOutcome, request, env, inputData,
                   bookingDataForSlack, bookingDetails, displayTimePacific,
                   icsContent, error, failStage, emailCalls, response,
                   slackTask, slackPosts>>

\* InviteResponse without the response.ok check: any response body is taken
\* as invite content
InviteResponse_IgnoresStatus ==
    /\ pc = "awaitInvite"
    /\ \E o \in InviteOutcomes :
         /\ inviteOutcome' = o
         /\ IF o.kind \in {"ok", "notok"}
            THEN /\ icsContent' = o.text
                 /\ pc' = "sendEmail"
                 /\ UNCHANGED <<error, failStage>>
            ELSE /\ Throw(Err("fetch failed"), "InviteGeneration")
                 /\ UNCHANGED icsContent
    /\ UNCHANGED <<emailOutcome, request, env, inputData, bookingDataForSlack,
                   bookingDetails, displayTimePacific, inviteCalls, emailCalls,
                   response, slackTask, slackPosts>>

\* apyhub.ts lines 57-70: the POST settles; generateICS returns or throws
InviteResponse ==
    /\ pc = "awaitInvite"
    /\ \E o \in InviteOutcomes :
         /\ inviteOutcome' = o
         /\ IF o.kind = "ok"
            THEN /\ icsContent' = o.text
                 /\ pc' = "sendEmail"
                 /\ UNCHANGED <<error, failStage>>
            ELSE IF o.kind = "notok"
            THEN /\ Throw([msg |-> "Failed to generate ICS: ApyHub returned status",
                           fields |-> <<>>, status |-> o.status],
                          "InviteGeneration")
                 /\ UNCHANGED icsContent
            ELSE /\ Throw(Err("fetch failed"), "InviteGeneration")
                 /\ UNCHANGED icsContent
    /\ UNCHANGED <<emailOutcome, request, env, inputData, bookingDataForSlack,
                   bookingDetails, displayTimePacific, inviteCalls, emailCalls,
                   response, slackTask, slackPosts>>

\* sendgrid.ts lines 37-61: the message handed to sgMail.send
EmailMessage(details) ==
    [to |-> [email |-> details.toEmail, name |-> details.toName],
     cc |-> "lyori6@gmail.com",
     from |-> "hello@debtcat.com",
     displayTimePacific |-> formatDisplay(DateFromISO(details.startTimeISO)),
     startTimeISO |-> details.startTimeISO,
     attachment |-> [content |-> details.icsContent.id, encoding |-> "base64",
                     filename |-> "invite.ics"]]

\* lines 100-106 and sendgrid.ts lines 19-64: sendEmailWithICS up to
\* sgMail.send; btoa throws on content outside Latin-1 before anything is sent
sendEmailWithICS ==
    /\ pc = "sendEmail"
    /\ LET emailDetails == [toEmail |-> bookingDetails.email,
                            toName |-> bookingDetails.name,
                            startTimeISO |-> bookingDetails.startTimeISO,
                            icsContent |-> icsContent]
       IN  IF ~icsContent.latin1
           THEN /\ Throw(Err("Invalid character"), "EmailSend")
                /\ UNCHANGED emailCalls
           ELSE /\ emailCalls' = Append(emailCalls, EmailMessage(emailDetails))
                /\ pc' = "awaitEmail"
                /\ UNCHANGED <<error, failStage>>
    /\ UNCHANGED <<inviteOutcome, emailOutcome, request, env, inputData,
                   bookingDataForSlack, bookingDetails, displayTimePacific,
                   icsContent, inviteCalls, response, slackTask, slackPosts>>

\* EmailResponse with the SendGrid error swallowed instead of re-thrown
EmailResponse_IgnoresFailure ==
    /\ pc = "awaitEmail"
    /\ \E sent \in BOOLEAN :
         /\ emailOutcome' = IF sent THEN "sent" ELSE "failed"
         /\ pc' = "notifySuccess"
         /\ UNCHANGED <<error, failStage>>
    /\ UNCHANGED <<inviteOutcome, request, env, inputData, bookingDataForSlack,
                   bookingDetails, displayTimePacific, icsContent, inviteCalls,
                   emailCalls, response, slackTask, slackPosts>>

\* sendgrid.ts lines 63-74: sgMail.send settles
EmailResponse ==
    /\ pc = "awaitEmail"
    /\ \E sent \in BOOLEAN :
         IF sent
         THEN /\ emailOutcome' = "sent"
              /\ pc' = "notifySuccess"
              /\ UNCHANGED <<error, failStage>>
         ELSE /\ emailOutcome' = "failed"
              /\ Throw(Err("Failed to send confirmation email via SendGrid."),
                       "EmailSend")
    /\ UNCHANGED <<inviteOutcome, request, env, inputData, bookingDataForSlack,
                   bookingDetails, displayTimePacific, icsContent, inviteCalls,
                   emailCalls, response, slackTask, slackPosts>>

\* lines 109-122: the success notification
SuccessPayload ==
    [header |-> "New Interview Booked!",
     applicant |-> IF bookingDetails.name # <<>> THEN bookingDetails.name
                   ELSE NotAvailable,
     email |-> IF bookingDetails.email # <<>> THEN bookingDetails.email
               ELSE NotAvailable,
     time |-> displayTimePacific,
     errorDetails |-> NoError]

\* lines 139-150: the failure notification
FailurePayload ==
    [header |-> "Interview Booking Failed!",
     applicant |-> <<>>,
     email |-> IF Truthy(bookingDataForSlack.email)
               THEN Render(bookingDataForSlack.email)
               ELSE IF inputData.kind \in {"number", "object"}
               THEN Render(inputData.fields.email)
               ELSE NotAvailable,
     time |-> <<>>,
     errorDetails |-> IF error.msg # "" THEN error
                      ELSE Err("Unknown internal error")]

\* lines 107-135: the success notification is handed to ctx.waitUntil when
\* SLACK_BOOKINGS_URL is set, and the 200 response is returned
NotifySuccess ==
    /\ pc = "notifySuccess"
    /\ IF env.SLACK_BOOKINGS_URL # <<>>
       THEN LET r == sendSlackMessage(env.SLACK_BOOKINGS_URL, SuccessPayload)
            IN  /\ slackTask' = r.task
                /\ slackPosts' = slackPosts \o r.posts
       ELSE UNCHANGED <<slackTask, slackPosts>>
    /\ response' = JsonResponse(200, TRUE, Err("Booking confirmed and email sent."))
    /\ pc' = "done"
    /\ UNCHANGED <<inviteOutcome, emailOutcome, request, env, inputData,
                   bookingDataForSlack, bookingDetails, displayTimePacific,
                   icsContent, error, failStage, inviteCalls, emailCalls>>

\* line 162: the status of every error response of the handler
ErrorStatus(stage) == 500

\* CatchError that returns the error response without notifying
CatchError_NoNotification ==
    /\ pc = "catch"
    /\ response' = JsonResponse(ErrorStatus(failStage), FALSE,
                        IF error.msg # "" THEN error
                        ELSE Err("Failed to process booking due to an internal error."))
    /\ pc' = "done"
    /\ UNCHANGED <<inviteOutcome, emailOutcome, request, env, inputData,
                   bookingDataForSlack, bookingDetails, displayTimePacific,
                   icsContent, error, failStage, inviteCalls, emailCalls,
                   slackTask, slackPosts>>

\* lines 136-164: the catch clause hands the failure notification to
\* ctx.waitUntil when SLACK_ERRORS_URL is set, and returns the error response
CatchError ==
    /\ pc = "catch"
    /\ IF env.SLACK_ERRORS_URL # <<>>
       THEN LET r == sendSlackMessage(env.SLACK_ERRORS_URL, FailurePayload)
            IN  /\ slackTask' = r.task
                /\ slackPosts' = slackPosts \o r.posts
       ELSE UNCHANGED <<slackTask, slackPosts>>
    /\ response' = JsonResponse(ErrorStatus(failStage), FALSE,
                        IF error.msg # "" THEN error
                        ELSE Err("Failed to process booking due to an internal error."))
    /\ pc' = "done"
    /\ UNCHANGED <<inviteOutcome, emailOutcome, request, env, inputData,
                   bookingDataForSlack, bookingDetails, displayTimePacific,
                   icsContent, error, failStage, inviteCalls, emailCalls>>

Next ==
    \/ Fetch
    \/ ParseBody
    \/ Validate
    \/ ResolveTime
    \/ generateICS
    \/ InviteResponse
    \/ sendEmailWithICS
    \/ EmailResponse
    \/ NotifySuccess
    \/ CatchError
    \/ SlackResponse

Spec == Init /\ [][Next]_vars

TypeOK ==
    /\ pc \in {"fetch", "json", "validate", "resolve", "generateICS",
               "awaitInvite", "sendEmail", "awaitEmail", "notifySuccess",
               "catch", "done", "slack"}
    /\ Len(inviteCalls) <= 1 /\ Len(emailCalls) <= 1 /\ Len(slackPosts) <= 1

-----------------------------------------------------------------------------
(* sendSlackMessage on its own: any webhook URL, any payload *)

OtherUrl == <<"h", "t", "t", "p", ":", "/", "/", "x">>

SlackPayloads ==
    {[header |-> h, applicant |-> a, email |-> e, time |-> <<>>,
      errorDetails |-> NoError] :
        h \in {"New Interview Booked!", "Interview Booking Failed!"},
        a \in {<<>>, CandidateName},
        e \in {NotAvailable} \cup EmailStrings}

InitSlack ==
    /\ request = [method |-> "POST", path |-> "/book-email", body |-> EmptyBody]
    /\ env \in {[SLACK_BOOKINGS_URL |-> <<>>, SLACK_ERRORS_URL |-> <<>>]}
    /\ pc = "slack"
    /\ inputData = InputUndefined
    /\ bookingDataForSlack = NoBookingData
    /\ bookingDetails = NoBookingDetails
    /\ displayTimePacific = <<>>
    /\ icsContent = NoIcs
    /\ error = NoError
    /\ failStage = "none"
    /\ inviteCalls = <<>>
    /\ emailCalls = <<>>
    /\ inviteOutcome = NoInviteOutcome
    /\ emailOutcome = "none"
    /\ response = NoResponse
    /\ \E u \in {<<>>, SlackUrl, OtherUrl}, p \in SlackPayloads :
         slackTask = [pc |-> "call", webhookUrl |-> u, payload |-> p,
                      outcome |-> NoOutcome, sent |-> FALSE]
    /\ slackPosts = <<>>

\* a caller invokes sendSlackMessage(webhookUrl, payload)
SlackCall ==
    /\ pc = "slack"
    /\ slackTask.pc = "call"
    /\ LET r == sendSlackMessage(slackTask.webhookUrl, slackTask.payload)
       IN  /\ slackTask' = r.task
           /\ slackPosts' = slackPosts \o r.posts
    /\ UNCHANGED <<inviteOutcome, emailOutcome, request, env, pc, inputData,
                   bookingDataForSlack, bookingDetails, displayTimePacific,
                   icsContent, error, failStage, inviteCalls, emailCalls,
                   response>>

NextSlack == SlackCall \/ SlackResponse

SpecSlack == InitSlack /\ [][NextSlack]_vars

-----------------------------------------------------------------------------
(* Properties *)

BookingRequest == request.method = "POST" /\ request.path = "/book-email"

\* the handler has returned its JSON response
Returned == pc = "done" /\ response.kind = "json"

Completed == Returned /\ response.status = 200

PostsWithHeader(h) ==
    Len(SelectSeq(slackPosts, LAMBDA p : p.payload.header = h))

SucceededPosts == PostsWithHeader("New Interview Booked!")

FailedPosts == PostsWithHeader("Interview Booking Failed!")

\* C1 as stated: every invocation of the /book-email handler dispatches exactly
\* one outcome notification, BookingSucceeded iff it completed and
\* BookingFailed otherwise, never zero and never both.
C1_ExactlyOneNotification ==
    Returned =>
        /\ Len(slackPosts) = 1
        /\ (Completed => SucceededPosts = 1)
        /\ (~Completed => FailedPosts = 1)

\* C1 amended: nothing is dispatched before the outcome is known; when the
\* handler returns, exactly one notification has been dispatched if the
\* destination of that outcome is configured (BookingSucceeded to the bookings
\* destination iff the pipeline completed, BookingFailed to the errors
\* destination otherwise) and none if it is not configured; never both.
C1_OneNotificationWhenConfigured ==
    /\ Len(slackPosts) <= 1
    /\ (~Returned => slackPosts = <<>>)
    /\ (Completed =>
          /\ FailedPosts = 0
          /\ SucceededPosts = (IF env.SLACK_BOOKINGS_URL # <<>> THEN 1 ELSE 0)
          /\ \A i \in 1..Len(slackPosts) : slackPosts[i].url = env.SLACK_BOOKINGS_URL)
    /\ (Returned /\ ~Completed =>
          /\ SucceededPosts = 0
          /\ FailedPosts = (IF env.SLACK_ERRORS_URL # <<>> THEN 1 ELSE 0)
          /\ \A i \in 1..Len(slackPosts) : slackPosts[i].url = env.SLACK_ERRORS_URL)

C1_Witness ==
    /\ Completed /\ SucceededPosts = 1
    /\ env.SLACK_ERRORS_URL # <<>>

\* the fields of an object body that are absent or empty
LackedFields == {n \in {"email", "interview_date", "interview_time"} :
                    request.body.fields[n] \in {Undefined, Str(<<>>)}}

LacksField == BookingRequest /\ request.body.kind = "object" /\ LackedFields # {}

SeqToSet(q) == {q[i] : i \in 1..Len(q)}

\* C2 as stated: when the body lacks (or has empty) any of email,
\* interview_date, interview_time, the handler fails with an error naming
\* exactly the missing fields, and no invite, email or notification call occurs.
C2_MissingFieldsNoOutboundCall ==
    LacksField /\ request.body.fields.email.kind # "number" =>
        /\ inviteCalls = <<>> /\ emailCalls = <<>> /\ slackPosts = <<>>
        /\ (Returned =>
              /\ ~response.success
              /\ response.message.msg = "Missing required fields"
              /\ SeqToSet(response.message.fields) = LackedFields)

\* C2 amended: when the body is a JSON object that lacks (or has empty) any of
\* email, interview_date, interview_time, and its email, if present, is a
\* string, the handler fails with an error whose message names exactly the
\* missing fields, each once; no invite-generation and no email-dispatch call
\* occurs, and the only outbound call is the BookingFailed notification POST,
\* made once iff the errors destination is configured.
C2_MissingFieldsNoInviteNoEmail ==
    LacksField /\ request.body.fields.email.kind # "number" =>
        /\ inviteCalls = <<>> /\ emailCalls = <<>>
        /\ SucceededPosts = 0
        /\ (pc \in {"catch", "done"} =>
              /\ failStage = "Validation"
              /\ error.msg = "Missing required fields"
              /\ SeqToSet(error.fields) = LackedFields
              /\ Len(error.fields) = Cardinality(LackedFields))
        /\ (pc = "done" =>
              /\ ~response.success
              /\ response.message = error
              /\ FailedPosts = (IF env.SLACK_ERRORS_URL # <<>> THEN 1 ELSE 0))

C2_Witness ==
    /\ LacksField /\ pc = "done"
    /\ LackedFields = {"interview_date", "interview_time"}
    /\ response.message.fields = <<"interview_date", "interview_time">>
    /\ FailedPosts = 1

\* C3 as stated: 200 with success=true on completion; a 400-class status with
\* success=false when the failure is in validation or time resolution; a
\* 500-class status with success=false when it is in invite generation or
\* email sending.
C3_StatusByOutcome ==
    Returned =>
        /\ (failStage = "none" => response.status = 200 /\ response.success)
        /\ (failStage \in {"Parse", "Validation", "TimeResolution"} =>
              response.status \in 400..499 /\ ~response.success)
        /\ (failStage \in {"InviteGeneration", "EmailSend"} =>
              response.status \in 500..599 /\ ~response.success)

\* C4 as stated: if the invite-generation call fails, email dispatch is never
\* invoked, the response is success=false with a 500-class status, and exactly
\* one BookingFailed notification attempt is made.
C4_InviteFailureOneNotification ==
    inviteOutcome.kind \in {"notok", "throw"} =>
        /\ emailCalls = <<>>
        /\ (Returned =>
              /\ ~response.success /\ response.status \in 500..599
              /\ FailedPosts = 1 /\ Len(slackPosts) = 1)

\* C4 amended: if the invite-generation call fails (non-success status or
\* transport failure), email dispatch is never invoked, the response is
\* success=false with a 500-class status, and exactly one BookingFailed
\* notification attempt is made when the errors destination is configured,
\* none when it is not.
C4_InviteFailureStopsPipeline ==
    inviteOutcome.kind \in {"notok", "throw"} =>
        /\ Len(inviteCalls) = 1
        /\ failStage = "InviteGeneration"
        /\ emailCalls = <<>>
        /\ pc \in {"catch", "done"}
        /\ SucceededPosts = 0
        /\ (pc = "catch" => slackPosts = <<>>)
        /\ (pc = "done" =>
              /\ response.kind = "json"
              /\ ~response.success /\ response.status \in 500..599
              /\ FailedPosts = (IF env.SLACK_ERRORS_URL # <<>> THEN 1 ELSE 0))

C4_Witness ==
    /\ inviteOutcome.kind = "notok" /\ pc = "done"
    /\ response.message.status = 500
    /\ FailedPosts = 1

\* C5: stages run in the order validation, time resolution, invite generation,
\* email dispatch, each started only after the previous one succeeded: the
\* invite call is made only for a validated request whose instant resolved,
\* the email call only after the single invite call returned content and with
\* that content, and success=true is returned only after one invite call and
\* one email call that both succeeded.
C5_StagesInOrder ==
    /\ Len(inviteCalls) <= 1 /\ Len(emailCalls) <= 1
    /\ (inviteCalls # <<>> =>
          /\ MissingFields(inputData.fields) = <<>>
          /\ bookingDetails.startTimeISO # <<>>
          /\ pc \notin {"fetch", "json", "validate", "resolve", "generateICS"})
    /\ (inviteOutcome.kind # "ok" => emailCalls = <<>>)
    /\ (emailCalls # <<>> =>
          /\ Len(inviteCalls) = 1
          /\ inviteOutcome.kind = "ok"
          /\ icsContent = inviteOutcome.text
          /\ emailCalls[1].attachment.content = inviteOutcome.text.id
          /\ emailCalls[1].to.email = inviteCalls[1].attendees_emails[1])
    /\ (response.kind # "none" /\ response.success =>
          /\ Len(inviteCalls) = 1 /\ Len(emailCalls) = 1
          /\ inviteOutcome.kind = "ok" /\ emailOutcome = "sent"
          /\ failStage = "none" /\ error = NoError
          /\ response.status = 200)

C5_Witness ==
    /\ Completed
    /\ icsContent.id = "icsB"
    /\ emailCalls[1].attachment.content = "icsB"

\* C6: the response does not depend on notification delivery: it is returned
\* before the notification POST settles, and no outcome of that POST (success,
\* non-success status, exception, or still running) changes it afterwards.
C6_ResponseIndependentOfNotification ==
    /\ [](slackTask.pc \in {"inflight", "done"} => response.kind = "json")
    /\ [][response.kind # "none" => response' = response]_vars

C6_Witness ==
    /\ Completed
    /\ slackTask.pc = "done" /\ slackTask.outcome.kind = "throw"
    /\ ~slackTask.sent

\* the date and time of a request cannot be resolved to an instant
BadDateTime ==
    LET d == request.body.fields.interview_date
        t == request.body.fields.interview_time
    IN  /\ BookingRequest /\ request.body.kind = "object"
        /\ \/ d.kind # "string" \/ t.kind # "string"
           \/ ~MatchDate(d.s) \/ ~MatchTime(t.s)
           \/ ParseInt(SubSeq(d.s, 4, 5)) \notin 1..12
           \/ ParseInt(SubSeq(d.s, 1, 2)) \notin
                1..DaysInMonth(ParseInt(SubSeq(d.s, 7, 10)),
                               ParseInt(SubSeq(d.s, 4, 5)))
           \/ ParseInt(SubSeq(t.s, 1, 2)) > 24
           \/ ParseInt(SubSeq(t.s, 4, 5)) > 59

\* C7: when interview_date does not match DD-MM-YYYY or interview_time does
\* not match HH:MM, or the instant is not representable, no invite-generation
\* and no email-dispatch call is ever made, and a request that passed
\* validation fails in time resolution with success=false.
C7_BadDateTimeFailsBeforeOutbound ==
    BadDateTime =>
        /\ inviteCalls = <<>> /\ emailCalls = <<>>
        /\ pc \notin {"generateICS", "awaitInvite", "sendEmail", "awaitEmail",
                      "notifySuccess"}
        /\ (Returned => ~response.success)
        /\ (pc \in {"catch", "done"} /\ LackedFields = {}
            /\ request.body.fields.email.kind = "string" =>
              /\ failStage = "TimeResolution"
              /\ error.msg \in {"Invalid date or time format.",
                                "Could not parse Pacific date.",
                                "inputData.interview_date.match is not a function",
                                "inputData.interview_time.match is not a function"})

C7_Witness ==
    /\ BadDateTime /\ pc = "done"
    /\ request.body.fields.interview_time = Str(<<"2", ":", "3", "0">>)
    /\ failStage = "TimeResolution"
    /\ error.msg = "Invalid date or time format."

\* C8 as stated: notification delivery never raises and reports a boolean:
\* false without any POST when the destination is not configured, false when
\* the single POST gets a non-success response or the transport throws, and
\* true only when the POST got a success status whose body is the literal "ok".
C8_TrueOnlyOnLiteralOk ==
    /\ Len(slackPosts) <= 1
    /\ (slackTask.webhookUrl = <<>> => slackPosts = <<>>)
    /\ (slackTask.pc = "done" =>
          /\ (slackTask.webhookUrl = <<>> => ~slackTask.sent)
          /\ (slackTask.outcome.kind = "throw" => ~slackTask.sent)
          /\ (slackTask.outcome.kind = "response" /\ ~slackTask.outcome.ok =>
                ~slackTask.sent)
          /\ (slackTask.sent =>
                /\ slackTask.outcome.kind = "response" /\ slackTask.outcome.ok
                /\ slackTask.outcome.body = <<"o", "k">>))

\* C8 amended: notification delivery never raises and reports a boolean: false
\* without any POST when the destination is not configured, false when the
\* single POST gets a non-success response or the transport throws, and true
\* exactly when that POST got a success status whose body, with surrounding
\* whitespace removed and compared without regard to case, is "ok".
C8_TrueOnlyOnNormalisedOk ==
    /\ Len(slackPosts) <= 1
    /\ (slackTask.webhookUrl = <<>> => slackPosts = <<>>)
    /\ (slackTask.pc \in {"inflight", "done"} /\ slackTask.webhookUrl # <<>> =>
          slackPosts = <<[url |-> slackTask.webhookUrl,
                          payload |-> slackTask.payload]>>)
    /\ (slackTask.pc = "done" =>
          /\ error = NoError
          /\ (slackTask.webhookUrl = <<>> =>
                ~slackTask.sent /\ slackTask.outcome = NoOutcome)
          /\ (slackTask.outcome.kind = "throw" => ~slackTask.sent)
          /\ (slackTask.outcome.kind = "response" /\ ~slackTask.outcome.ok =>
                ~slackTask.sent)
          /\ (slackTask.sent <=>
                /\ slackTask.outcome.kind = "response" /\ slackTask.outcome.ok
                /\ slackTask.outcome.body \in
                     {<<"o", "k">>, <<"O", "K">>, <<" ", "o", "k", "\n">>}))

C8_Witness ==
    /\ pc = "slack" /\ slackTask.pc = "done"
    /\ slackTask.outcome.ok /\ slackTask.outcome.body = <<"O", "K">>
    /\ slackTask.sent

InSpringForwardGap ==
    LET d == request.body.fields.interview_date.s
        t == request.body.fields.interview_time.s
        y == ParseInt(SubSeq(d, 7, 10))
    IN  /\ ParseInt(SubSeq(d, 4, 5)) = 3
        /\ ParseInt(SubSeq(d, 1, 2)) = NthSunday(y, 3, 2)
        /\ ParseInt(SubSeq(t, 1, 2)) = 2

StartInstant == DateFromISO(bookingDetails.startTimeISO)

EndInstant == StartInstant + 30

\* minutes since local midnight of an HH:MM string
WallMinutes(s) == ParseInt(SubSeq(s, 1, 2)) * 60 + ParseInt(SubSeq(s, 4, 5))

\* the wall-clock date and time the display zone shows at instant t, as
\* minutes on the zone's own calendar
WallClock(t) ==
    LET f == ZonedFields(t)
    IN  DaysFromCivil(f.year, f.month, f.day) * MinutesPerDay
        + f.hour * 60 + f.minute

\* end_time is a time of day the display zone shows on the day of the end
ValidEndTime ==
    LET e == inviteCalls[1].end_time
        f == ZonedFields(EndInstant)
    IN  /\ MatchTime(e)
        /\ ParseInt(SubSeq(e, 1, 2)) \in 0..23
        /\ ParseInt(SubSeq(e, 4, 5)) \in 0..59
        /\ ~(f.month = 3 /\ f.day = NthSunday(f.year, 3, 2)
             /\ ParseInt(SubSeq(e, 1, 2)) = 2)

\* the 30 minutes contain the fall-back transition: the start is in daylight
\* time and the end in standard time
CrossesFallBack ==
    calcOffset(StartInstant) = PDTOffset /\ calcOffset(EndInstant) = PSTOffset

\* end_time is the wall-clock reading 30 minutes of elapsed time after
\* start_time, allowing for the clock change in between
EndIsThirtyMinutesOn ==
    WallMinutes(inviteCalls[1].end_time)
      = (WallMinutes(inviteCalls[1].start_time) + 30
         + calcOffset(EndInstant) - calcOffset(StartInstant)) % MinutesPerDay

\* C11 as stated: the invite's end is exactly 30 minutes after the start
\* instant, and its projection into the display zone is a valid wall-clock
\* time that is later than the start's display time, including when the start
\* is at a spring-forward boundary.
C11_EndDisplayLater ==
    inviteCalls # <<>> =>
        /\ EndIsThirtyMinutesOn
        /\ ValidEndTime
        /\ WallClock(EndInstant) > WallClock(StartInstant)

\* C11 amended: the invite's end is exactly 30 minutes after the start
\* instant, and its projection into the display zone is a valid wall-clock
\* time; it is later than the start's display time, including when the start
\* is at a spring-forward boundary (where it reads 90 minutes later), except
\* when the 30 minutes contain the fall-back transition, where the end's
\* display time reads 30 minutes earlier than the start's.
C11_EndDisplayLaterExceptFallBack ==
    inviteCalls # <<>> =>
        /\ EndIsThirtyMinutesOn
        /\ ValidEndTime
        /\ (~CrossesFallBack => WallClock(EndInstant) > WallClock(StartInstant))
        /\ (CrossesFallBack =>
              WallClock(EndInstant) = WallClock(StartInstant) - 30)

C11_Witness ==
    /\ inviteCalls # <<>>
    /\ inviteCalls[1].meeting_date
         = <<"0", "9", "-", "0", "3", "-", "2", "0", "2", "5">>
    /\ inviteCalls[1].start_time = <<"0", "1", ":", "3", "0">>
    /\ inviteCalls[1].end_time = <<"0", "3", ":", "0", "0">>
    /\ calcOffset(StartInstant) = PSTOffset /\ calcOffset(EndInstant) = PDTOffset

\* the applicant's email is known to the handler: the body parsed to an object
\* whose email is a non-empty string
EmailKnown ==
    /\ inputData.kind = "object"
    /\ inputData.fields.email.kind = "string"
    /\ inputData.fields.email.s # <<>>

\* the email is unknown: the body could not be parsed (or is null), or parsed
\* to an object without an email value
EmailUnknown ==
    \/ inputData.kind \in {"undefined", "null"}
    \/ inputData.kind = "object"
       /\ inputData.fields.email \in {Undefined, Str(<<>>)}

\* C12: every BookingFailed notification renders the applicant's email when it
\* was derived before the failure, and the fixed placeholder N/A whenever the
\* email is unknown, both when the body could not be parsed and when it
\* parsed but carries no email.
C12_FailureEmailOrPlaceholder ==
    \A i \in 1..Len(slackPosts) :
        slackPosts[i].payload.header = "Interview Booking Failed!" =>
            /\ (EmailKnown =>
                  slackPosts[i].payload.email = inputData.fields.email.s)
            /\ (EmailUnknown => slackPosts[i].payload.email = NotAvailable)

\* C13: in every invite request the submitted components describe an event
\* that ends after it starts: end_time, read on the submitted meeting_date, is
\* later than start_time, also for starts in the last 30 minutes before local
\* midnight.
C13_EndTimeAfterStartTime ==
    \A i \in 1..Len(inviteCalls) :
        WallMinutes(inviteCalls[i].end_time)
            > WallMinutes(inviteCalls[i].start_time)

====
